---- MODULE Spec2Model ----
(***************************************************************************)
(* A model of Breakout-Regression.ipynb: the notebook's code cells run in  *)
(* document order on an IPython kernel (import, fetch, mags/z, colors,     *)
(* plot, def outlier_score), and calls of the scoring function             *)
(* outlier_score(model, X, y, thresh=0.05).                                *)
(*                                                                         *)
(* Redshifts, predictions and thresholds are integers in units of 0.01.    *)
(* The quotient np.sum(...) / len(y) is Python 3 true division of a NumPy  *)
(* integer scalar: a rational, kept here in lowest terms, or nan for 0/0.  *)
(* Arrays of the notebook part are 0-based, as in the source.              *)
(***************************************************************************)
EXTENDS Integers, Sequences, FiniteSets, TLC

VARIABLES
    pc,            \* index into Cells of the next code cell to execute
    ns,            \* names bound in the kernel's namespace
    err,           \* "none", or the exception that stopped the run
    data,          \* the fetched catalog: record i at data[i], i in 0..n-1
    mags,          \* matrix [nrows, ncols, at]
    z,             \* vector over 0..n-1
    colors,        \* matrix [nrows, ncols, at]
    plot,          \* what ax.plot / ax.set drew: [drawn, x, y, xlabel, ylabel]
    called,        \* outlier_score has been called at least once
    args,          \* arguments of the latest call, as passed
    callerModel,   \* the caller's estimator
    callerX,       \* the caller's feature rows X
    callerY,       \* the caller's true values y
    predictCalls,  \* invocations of model.predict made by the latest call
    outcome,       \* how the latest call ended: a returned value or a raised exception
    prev           \* threshold and outcome of the call before, on the same model, X, y

nbvars == <<pc, ns, err, data, mags, z, colors, plot>>
scvars == <<called, args, callerModel, callerX, callerY, predictCalls, outcome, prev>>
vars == <<pc, ns, err, data, mags, z, colors, plot,
          called, args, callerModel, callerX, callerY, predictCalls, outcome, prev>>

----------------------------------------------------------------------------
(* Bounds of the model *)

MaxLen == 2          \* rows of X and y passed to outlier_score
MaxRecords == 2      \* records of the fetched catalog

XVals == {0, 1}                  \* distinct feature rows
RedshiftVals == {0, 5, 10}       \* true and predicted redshifts, units of 0.01
Thresholds == {-5, 0, 5, 10}     \* explicit thresh arguments, units of 0.01
Exceptions == {"NotFittedError", "ValueError"}
MagVals == {17, 18}              \* model magnitudes
ZVals == {0, 1}                  \* catalog redshifts

----------------------------------------------------------------------------
(* outlier_score *)

\* thresh=0.05 in the signature, in units of 0.01
DefaultThresh == 5

Abs(v) == IF v < 0 THEN -v ELSE v

RECURSIVE GCD(_, _)
GCD(a, b) == IF b = 0 THEN a ELSE GCD(b, a % b)

NaN == [num |-> 0, den |-> 0]

\* a fitted or failing estimator: predict maps each row through table, or raises exc
Models ==
    {[table |-> t, exc |-> "none"] : t \in [XVals -> RedshiftVals]}
    \cup {[table |-> [x \in XVals |-> 0], exc |-> e] : e \in Exceptions}

\* model.predict(X): one prediction per row of X, or the estimator's exception
Predict(model, X) ==
    IF model.exc # "none"
    THEN [kind |-> "raise", exc |-> model.exc, val |-> <<>>]
    ELSE [kind |-> "ok", exc |-> "none",
          val |-> [i \in 1..Len(X) |-> model.table[X[i]]]]

\* abs(y - y_pred): a new array, element-wise
AbsDiff(y, y_pred) == [i \in 1..Len(y) |-> Abs(y[i] - y_pred[i])]

\* faulty variant of WithinThresh: the comparison turned round
WithinThresh_reversed(diff, thresh) == [i \in 1..Len(diff) |-> diff[i] >= thresh]

\* diff <= thresh: a boolean array
WithinThresh(diff, thresh) == [i \in 1..Len(diff) |-> diff[i] <= thresh]

\* np.sum of a boolean array: the number of True entries
NpSum(b) == Cardinality({i \in 1..Len(b) : b[i]})

\* faulty variant of TrueDiv: integer floor division (what '/' does to two
\* integers under Python 2 without the division __future__ import)
FloorDiv(a, b) == IF b = 0 THEN NaN ELSE [num |-> a \div b, den |-> 1]

\* faulty variant of TrueDiv: the operands exchanged
TrueDiv_swapped(a, b) == IF a = 0 THEN NaN ELSE [num |-> b, den |-> a]

\* a / b on a NumPy integer scalar: the exact quotient, nan (with a warning) for 0 / 0
TrueDiv(a, b) ==
    IF b = 0 THEN NaN
    ELSE LET g == GCD(a, b) IN [num |-> a \div g, den |-> b \div g]

\* faulty variant of ThreshParam: a default of 0.5
ThreshParam_half(arg) == IF arg.given THEN arg.val ELSE 50

\* the value bound to the parameter thresh: the argument, or the default
ThreshParam(arg) == IF arg.given THEN arg.val ELSE DefaultThresh

\* faulty variant of outlier_score: the exception of predict caught, 0 returned
outlier_score_swallow(model, X, y, thresh) ==
    LET p == Predict(model, X) IN
    IF p.kind = "raise"
    THEN [kind |-> "return", exc |-> "none", val |-> [num |-> 0, den |-> 1]]
    ELSE [kind |-> "return", exc |-> "none",
          val |-> TrueDiv(NpSum(WithinThresh(AbsDiff(y, p.val), thresh)), Len(y))]

\* the body of outlier_score: no try/except, so an exception of predict propagates
outlier_score(model, X, y, thresh) ==
    LET p == Predict(model, X) IN
    IF p.kind = "raise"
    THEN [kind |-> "raise", exc |-> p.exc, val |-> NaN]
    ELSE [kind |-> "return", exc |-> "none",
          val |-> TrueDiv(NpSum(WithinThresh(AbsDiff(y, p.val), thresh)), Len(y))]

\* the invocations of model.predict in the body: the single one of its first line
PredictInvocations(model, X) == <<[model |-> model, X |-> X]>>

\* faulty variant of CallerY: the subtraction done in place (y -= y_pred)
CallerY_inplace(y, y_pred) == [i \in 1..Len(y) |-> y[i] - y_pred[i]]

\* the caller's y after abs(y - y_pred): the subtraction allocates, y is untouched
CallerY(y, y_pred) == y

\* inputs of a call: X and y of equal length
Inputs ==
    UNION {[1..n -> XVals] \X [1..n -> RedshiftVals] : n \in 0..MaxLen}

ThreshArgs ==
    {[given |-> TRUE, val |-> t] : t \in Thresholds}
    \cup {[given |-> FALSE, val |-> 0]}

NoPrev == [valid |-> FALSE, thresh |-> 0, outcome |-> [kind |-> "none", exc |-> "none", val |-> NaN]]

\* one call outlier_score(model, X, y[, thresh]) from the caller
DoCall(model, X, y, arg) ==
    LET p == Predict(model, X) IN
    /\ called' = TRUE
    /\ args' = [model |-> model, X |-> X, y |-> y, thresh |-> arg]
    /\ predictCalls' = PredictInvocations(model, X)
    /\ callerX' = X
    /\ callerY' = IF p.kind = "ok" THEN CallerY(y, p.val) ELSE y
    /\ outcome' = outlier_score(model, X, y, ThreshParam(arg))

\* the caller scores its model on its arrays, with or without a thresh argument;
\* the call before, if any, is remembered for comparison
Score ==
    /\ "outlier_score" \in ns
    /\ \E arg \in ThreshArgs : DoCall(callerModel, callerX, callerY, arg)
    /\ prev' = IF called
               THEN [valid |-> TRUE, thresh |-> ThreshParam(args.thresh),
                     outcome |-> outcome]
               ELSE NoPrev
    /\ UNCHANGED callerModel
    /\ UNCHANGED nbvars

----------------------------------------------------------------------------
(* The notebook's cells *)

\* N = 50000 in the plot cell
N == 50000

Min(a, b) == IF a < b THEN a ELSE b

EmptyMatrix == [nrows |-> 0, ncols |-> 0, at |-> <<>>]
EmptyPlot == [drawn |-> FALSE, x |-> <<>>, y |-> <<>>, xlabel |-> "", ylabel |-> ""]

\* one catalog record: the five model magnitudes and the spectroscopic redshift
Record ==
    [modelMag_u : MagVals, modelMag_g : MagVals, modelMag_r : MagVals,
     modelMag_i : MagVals, modelMag_z : MagVals, z : ZVals]

\* what fetch_sdss_specgals() may return: a structured array of n records
Catalogs == UNION {[0..(n - 1) -> Record] : n \in 0..MaxRecords}

\* faulty variant of Bands: 'urgiz'
Bands_swapped == <<"u", "r", "g", "i", "z">>

\* the string 'ugriz', iterated character by character
Bands == <<"u", "g", "r", "i", "z">>

\* 'modelMag_%s' % f
FieldName(f) == "modelMag_" \o f

\* data[field]: the column of a structured array, one entry per record
Column(d, field) == [i \in DOMAIN d |-> d[i][field]]

\* np.vstack of a list of equally long 1-d arrays: one row per array
Vstack(rows) ==
    LET nc == Cardinality(DOMAIN rows[1]) IN
    [nrows |-> Len(rows), ncols |-> nc,
     at |-> [p \in (0..(Len(rows) - 1)) \X (0..(nc - 1)) |-> rows[p[1] + 1][p[2]]]]

\* M.T
Transpose(M) ==
    [nrows |-> M.ncols, ncols |-> M.nrows,
     at |-> [p \in (0..(M.ncols - 1)) \X (0..(M.nrows - 1)) |-> M.at[<<p[2], p[1]>>]]]

\* np.vstack([data['modelMag_%s' % f] for f in 'ugriz']).T
MagsOf(d) ==
    Transpose(Vstack([k \in 1..Len(Bands) |-> Column(d, FieldName(Bands[k]))]))

\* data['z']
RedshiftOf(d) == Column(d, "z")

\* M[:, k:]
ColsFrom(M, k) ==
    LET nc == IF M.ncols > k THEN M.ncols - k ELSE 0 IN
    [nrows |-> M.nrows, ncols |-> nc,
     at |-> [p \in (0..(M.nrows - 1)) \X (0..(nc - 1)) |-> M.at[<<p[1], p[2] + k>>]]]

\* M[:, :-k]
ColsDropLast(M, k) ==
    LET nc == IF M.ncols > k THEN M.ncols - k ELSE 0 IN
    [nrows |-> M.nrows, ncols |-> nc,
     at |-> [p \in (0..(M.nrows - 1)) \X (0..(nc - 1)) |-> M.at[p]]]

\* A - B for two matrices of the same shape
MatSub(A, B) ==
    [nrows |-> A.nrows, ncols |-> A.ncols,
     at |-> [p \in (0..(A.nrows - 1)) \X (0..(A.ncols - 1)) |-> A.at[p] - B.at[p]]]

\* faulty variant of ColorsOf: mags[:, :-1] - mags[:, 1:]
ColorsOf_reversed(M) == MatSub(ColsDropLast(M, 1), ColsFrom(M, 1))

\* mags[:, 1:] - mags[:, :-1]
ColorsOf(M) == MatSub(ColsFrom(M, 1), ColsDropLast(M, 1))

\* M[:n, j]: column j of the first n rows
ColumnHead(M, n, j) == [i \in 0..(Min(n, M.nrows) - 1) |-> M.at[<<i, j>>]]

\* v[:n]
VecHead(v, n) == [i \in 0..(Min(n, Cardinality(DOMAIN v)) - 1) |-> v[i]]

\* ax.plot(colors[:N, 1], z[:N], ...) and ax.set(xlabel='g - r color', ylabel='redshift')
PlotOf(c, zz) ==
    [drawn |-> TRUE, x |-> ColumnHead(c, N, 1), y |-> VecHead(zz, N),
     xlabel |-> "g - r color", ylabel |-> "redshift"]

Stmt(reads, defines) == [reads |-> reads, defines |-> defines]

\* the statements of each cell: the names a statement reads and the names it binds
StmtsNumpyHelp == <<Stmt({}, {"np"}), Stmt({"np"}, {})>>
StmtsSetup ==
    <<Stmt({}, {"mpl"}), Stmt({}, {"plt"}), Stmt({}, {"np"}),
      Stmt({"mpl"}, {}), Stmt({"mpl"}, {})>>
StmtsFetch ==
    <<Stmt({}, {"fetch_sdss_specgals"}), Stmt({"fetch_sdss_specgals"}, {"data"})>>
StmtsDtypeNames == <<Stmt({"data"}, {})>>
StmtsMags == <<Stmt({"np", "data"}, {"mags"}), Stmt({"data"}, {"z"})>>
StmtsShapes == <<Stmt({"mags"}, {}), Stmt({"z"}, {})>>
StmtsColors == <<Stmt({"mags"}, {"colors"})>>
StmtsPlot ==
    <<Stmt({"plt"}, {"fig", "ax"}), Stmt({}, {"N"}),
      Stmt({"ax", "colors", "N", "z"}, {}), Stmt({"ax"}, {})>>
StmtsDefOutlierScore == <<Stmt({}, {"outlier_score"})>>

\* the free names the body of outlier_score reads when it is called
BodyReads == {"np"}

Cell(id, stmts) == [id |-> id, stmts |-> stmts]

\* faulty variant of Cells: the colors cell placed before the mags cell
Cells_colorsFirst ==
    <<Cell("numpy_help", StmtsNumpyHelp), Cell("setup", StmtsSetup),
      Cell("fetch", StmtsFetch), Cell("dtype_names", StmtsDtypeNames),
      Cell("colors", StmtsColors), Cell("mags", StmtsMags),
      Cell("shapes", StmtsShapes), Cell("plot", StmtsPlot),
      Cell("def_outlier_score", StmtsDefOutlierScore)>>

\* the code cells that hold input, in document order (the empty exercise cells
\* execute nothing)
Cells ==
    <<Cell("numpy_help", StmtsNumpyHelp), Cell("setup", StmtsSetup),
      Cell("fetch", StmtsFetch), Cell("dtype_names", StmtsDtypeNames),
      Cell("mags", StmtsMags), Cell("shapes", StmtsShapes),
      Cell("colors", StmtsColors), Cell("plot", StmtsPlot),
      Cell("def_outlier_score", StmtsDefOutlierScore)>>

\* the kernel runs a cell's statements in order; a read of an unbound name raises
\* NameError and ends the cell, the names bound so far staying bound
RECURSIVE RunStmts(_, _)
RunStmts(stmts, names) ==
    IF stmts = <<>> THEN [ns |-> names, err |-> "none"]
    ELSE IF ~(Head(stmts).reads \subseteq names) THEN [ns |-> names, err |-> "NameError"]
    ELSE RunStmts(Tail(stmts), names \cup Head(stmts).defines)

\* the cell about to be executed is the one called id
Current(id) == err = "none" /\ pc <= Len(Cells) /\ Cells[pc].id = id

\* the kernel's bookkeeping for the current cell; an exception stops the run
Kernel(r) ==
    /\ ns' = r.ns
    /\ err' = r.err
    /\ pc' = IF r.err = "none" THEN pc + 1 ELSE pc

CellNumpyHelp ==
    /\ Current("numpy_help")
    /\ Kernel(RunStmts(Cells[pc].stmts, ns))
    /\ UNCHANGED <<data, mags, z, colors, plot>>
    /\ UNCHANGED scvars

CellSetup ==
    /\ Current("setup")
    /\ Kernel(RunStmts(Cells[pc].stmts, ns))
    /\ UNCHANGED <<data, mags, z, colors, plot>>
    /\ UNCHANGED scvars

CellFetch ==
    /\ Current("fetch")
    /\ LET r == RunStmts(Cells[pc].stmts, ns) IN
        /\ Kernel(r)
        /\ IF r.err = "none" THEN data' \in Catalogs ELSE UNCHANGED data
    /\ UNCHANGED <<mags, z, colors, plot>>
    /\ UNCHANGED scvars

CellDtypeNames ==
    /\ Current("dtype_names")
    /\ Kernel(RunStmts(Cells[pc].stmts, ns))
    /\ UNCHANGED <<data, mags, z, colors, plot>>
    /\ UNCHANGED scvars

CellMags ==
    /\ Current("mags")
    /\ LET r == RunStmts(Cells[pc].stmts, ns) IN
        /\ Kernel(r)
        /\ IF r.err = "none"
           THEN mags' = MagsOf(data) /\ z' = RedshiftOf(data)
           ELSE UNCHANGED <<mags, z>>
    /\ UNCHANGED <<data, colors, plot>>
    /\ UNCHANGED scvars

CellShapes ==
    /\ Current("shapes")
    /\ Kernel(RunStmts(Cells[pc].stmts, ns))
    /\ UNCHANGED <<data, mags, z, colors, plot>>
    /\ UNCHANGED scvars

CellColors ==
    /\ Current("colors")
    /\ LET r == RunStmts(Cells[pc].stmts, ns) IN
        /\ Kernel(r)
        /\ IF r.err = "none" THEN colors' = ColorsOf(mags) ELSE UNCHANGED colors
    /\ UNCHANGED <<data, mags, z, plot>>
    /\ UNCHANGED scvars

CellPlot ==
    /\ Current("plot")
    /\ LET r == RunStmts(Cells[pc].stmts, ns) IN
        /\ Kernel(r)
        /\ IF r.err = "none" THEN plot' = PlotOf(colors, z) ELSE UNCHANGED plot
    /\ UNCHANGED <<data, mags, z, colors>>
    /\ UNCHANGED scvars

CellDefOutlierScore ==
    /\ Current("def_outlier_score")
    /\ Kernel(RunStmts(Cells[pc].stmts, ns))
    /\ UNCHANGED <<data, mags, z, colors, plot>>
    /\ UNCHANGED scvars

----------------------------------------------------------------------------
(* Specifications *)

NoCall ==
    /\ called = FALSE
    /\ args = [model |-> [table |-> [x \in XVals |-> 0], exc |-> "none"],
               X |-> <<>>, y |-> <<>>, thresh |-> [given |-> FALSE, val |-> 0]]
    /\ predictCalls = <<>>
    /\ outcome = [kind |-> "none", exc |-> "none", val |-> NaN]
    /\ prev = NoPrev

\* a fresh kernel: nothing executed, nothing bound
Init ==
    /\ pc = 1
    /\ ns = {}
    /\ err = "none"
    /\ data = <<>>
    /\ mags = EmptyMatrix
    /\ z = <<>>
    /\ colors = EmptyMatrix
    /\ plot = EmptyPlot
    /\ callerModel = [table |-> [x \in XVals |-> 0], exc |-> "none"]
    /\ callerX = <<>>
    /\ callerY = <<>>
    /\ NoCall

NextNotebook ==
    \/ CellNumpyHelp
    \/ CellSetup
    \/ CellFetch
    \/ CellDtypeNames
    \/ CellMags
    \/ CellShapes
    \/ CellColors
    \/ CellPlot
    \/ CellDefOutlierScore

SpecNotebook == Init /\ [][NextNotebook]_vars

\* the kernel after every cell has run on a catalog of no records: outlier_score
\* is defined, no call has been made, and the caller holds an estimator and two
\* arrays X and y of equal length
InitScore ==
    /\ pc = Len(Cells) + 1
    /\ ns = (RunStmts(StmtsNumpyHelp \o StmtsSetup \o StmtsFetch \o StmtsDtypeNames
                      \o StmtsMags \o StmtsShapes \o StmtsColors \o StmtsPlot
                      \o StmtsDefOutlierScore, {})).ns
    /\ err = "none"
    /\ data = <<>>
    /\ mags = MagsOf(<<>>)
    /\ z = RedshiftOf(<<>>)
    /\ colors = ColorsOf(MagsOf(<<>>))
    /\ plot = PlotOf(ColorsOf(MagsOf(<<>>)), RedshiftOf(<<>>))
    /\ callerModel \in Models
    /\ \E xy \in Inputs : callerX = xy[1] /\ callerY = xy[2]
    /\ NoCall

NextScore == Score

SpecScore == InitScore /\ [][NextScore]_vars

----------------------------------------------------------------------------
(* Properties of outlier_score, checked under SpecScore *)

\* the prediction vector of the latest call
YPred == Predict(args.model, args.X).val

\* the number of positions of the latest call within t of the true value
CountWithin(t) ==
    Cardinality({i \in 1..Len(args.y) : Abs(args.y[i] - YPred[i]) <= t})

Returned == called /\ outcome.kind = "return"

\* v1 <= v2 for two quotients with positive denominators
FracLeq(v1, v2) == v1.num * v2.den <= v2.num * v1.den

\* C1: a call that returns on a non-empty y returns exactly (number of positions i
\* with |y[i] - y_pred[i]| <= thresh, the boundary included) / len(y), as an exact
\* quotient; on an empty y the quotient 0 / 0 has no value and nan is returned.
C1_ExactFraction ==
    Returned =>
        IF Len(args.y) = 0
        THEN outcome.val.den = 0
        ELSE /\ outcome.val.den > 0
             /\ outcome.val.num * Len(args.y)
                    = CountWithin(ThreshParam(args.thresh)) * outcome.val.den

\* C1 witness: two rows, one exactly on the boundary |difference| = thresh and one
\* outside it, and the call returned 1/2.
C1_Witness ==
    /\ Returned
    /\ Len(args.y) = 2
    /\ args.thresh.given /\ args.thresh.val = 5
    /\ \E i \in 1..2 : Abs(args.y[i] - YPred[i]) = 5
    /\ \E i \in 1..2 : Abs(args.y[i] - YPred[i]) = 10
    /\ outcome.val = [num |-> 1, den |-> 2]

InUnitInterval(v) == v.den > 0 /\ 0 <= v.num /\ v.num <= v.den

\* C2 as stated: for X and y of equal length, length 0 included, and every
\* threshold, negative included, the returned value lies in [0, 1].
C2_Original == Returned => InUnitInterval(outcome.val)

\* C2 amended: for X and y of equal non-zero length and every threshold, negative
\* included, the returned value lies in [0, 1].
C2_UnitIntervalNonEmpty ==
    (Returned /\ Len(args.y) > 0) => InUnitInterval(outcome.val)

\* C2 witness: a non-empty y scored with a negative threshold returns 0.
C2_Witness ==
    /\ Returned
    /\ Len(args.y) > 0
    /\ args.thresh.given /\ args.thresh.val < 0
    /\ outcome.val = [num |-> 0, den |-> 1]

\* C4: a call without a thresh argument ends as the call with thresh = 0.05 (5 in
\* units of 0.01) on the same model, X and y ends.
C4_DefaultThresh ==
    (called /\ ~args.thresh.given) =>
        outcome = outlier_score(args.model, args.X, args.y,
                                ThreshParam([given |-> TRUE, val |-> 5]))

\* C4 witness: a call without thresh where one row is 0.05 off and one 0.10 off,
\* so that the default decides the score.
C4_Witness ==
    /\ Returned
    /\ ~args.thresh.given
    /\ Len(args.y) = 2
    /\ \E i \in 1..2 : Abs(args.y[i] - YPred[i]) = 5
    /\ \E i \in 1..2 : Abs(args.y[i] - YPred[i]) = 10
    /\ outcome.val = [num |-> 1, den |-> 2]

\* C5: when model.predict(X) raises, the call of outlier_score ends with that same
\* exception and returns no value.
C5_PredictFailureSurfaces ==
    (called /\ Predict(args.model, args.X).kind = "raise") =>
        /\ outcome.kind = "raise"
        /\ outcome.exc = Predict(args.model, args.X).exc

\* C5 witness: a call on an estimator whose predict raises ValueError.
C5_Witness ==
    /\ called
    /\ args.model.exc = "ValueError"
    /\ Len(args.y) > 0
    /\ outcome.kind = "raise"

\* C9: two calls on the same model, X and non-empty y with thresholds t1 <= t2
\* return values v1 <= v2; and a model that predicts every y[i] exactly scores 1
\* for every threshold >= 0.
C9_MonotoneInThresh ==
    /\ (Returned /\ prev.valid /\ prev.outcome.kind = "return" /\ Len(args.y) > 0) =>
          /\ prev.thresh <= ThreshParam(args.thresh)
                => FracLeq(prev.outcome.val, outcome.val)
          /\ ThreshParam(args.thresh) <= prev.thresh
                => FracLeq(outcome.val, prev.outcome.val)
    /\ (Returned /\ Len(args.y) > 0 /\ YPred = args.y
            /\ ThreshParam(args.thresh) >= 0) =>
          outcome.val = [num |-> 1, den |-> 1]

\* C9 witness: an exact model scored first with a negative threshold (0) and then
\* with a threshold >= 0 (1): the score rose with the threshold.
C9_Witness ==
    /\ Returned
    /\ prev.valid
    /\ Len(args.y) > 0
    /\ YPred = args.y
    /\ prev.thresh < 0
    /\ prev.outcome.val = [num |-> 0, den |-> 1]
    /\ ThreshParam(args.thresh) >= 0
    /\ outcome.val = [num |-> 1, den |-> 1]

----------------------------------------------------------------------------
(* Properties of the notebook's cells, checked under SpecNotebook *)

NRecords == Cardinality(DOMAIN data)

\* C3 as stated: every x value of the plot labelled 'g - r color' is the g-band
\* model magnitude minus the r-band model magnitude of that galaxy.
C3_PlotXIsGMinusR ==
    (plot.drawn /\ plot.xlabel = "g - r color") =>
        \A i \in DOMAIN plot.x :
            plot.x[i] = data[i].modelMag_g - data[i].modelMag_r

\* C6: colors has the rows of mags and 4 columns, one fewer than mags, and
\* colors[i][j] = mags[i][j+1] - mags[i][j]: g - u, r - g, i - r, z - i of record i.
C6_ColorsAdjacentDifferences ==
    ("colors" \in ns) =>
        /\ colors.nrows = mags.nrows
        /\ colors.ncols = mags.ncols - 1
        /\ colors.ncols = 4
        /\ \A i \in 0..(colors.nrows - 1) :
              /\ \A j \in 0..3 :
                    colors.at[<<i, j>>] = mags.at[<<i, j + 1>>] - mags.at[<<i, j>>]
              /\ colors.at[<<i, 0>>] = data[i].modelMag_g - data[i].modelMag_u
              /\ colors.at[<<i, 1>>] = data[i].modelMag_r - data[i].modelMag_g
              /\ colors.at[<<i, 2>>] = data[i].modelMag_i - data[i].modelMag_r
              /\ colors.at[<<i, 3>>] = data[i].modelMag_z - data[i].modelMag_i

\* C6 witness: colors computed for two galaxies, with a non-zero color.
C6_Witness ==
    /\ "colors" \in ns
    /\ colors.nrows = 2
    /\ colors.at[<<0, 1>>] = -1
    /\ colors.at[<<1, 1>>] = 1

\* C7: for a catalog of n records mags is n x 5 with columns u, g, r, i, z, z has
\* length n, and row i of mags and z[i] come from record i.
C7_MagsAndZAligned ==
    ("mags" \in ns /\ "z" \in ns) =>
        /\ mags.nrows = NRecords
        /\ mags.ncols = 5
        /\ DOMAIN z = 0..(NRecords - 1)
        /\ \A i \in 0..(NRecords - 1) :
              /\ mags.at[<<i, 0>>] = data[i].modelMag_u
              /\ mags.at[<<i, 1>>] = data[i].modelMag_g
              /\ mags.at[<<i, 2>>] = data[i].modelMag_r
              /\ mags.at[<<i, 3>>] = data[i].modelMag_i
              /\ mags.at[<<i, 4>>] = data[i].modelMag_z
              /\ z[i] = data[i].z

\* C7 witness: mags and z extracted from two records that differ in the g and r
\* bands and in redshift.
C7_Witness ==
    /\ "mags" \in ns
    /\ NRecords = 2
    /\ data[0].modelMag_g # data[0].modelMag_r
    /\ data[0].modelMag_g # data[1].modelMag_g
    /\ data[0].z # data[1].z
    /\ mags.nrows = 2

\* C8: run in document order, no cell reads an unbound name (no NameError): np
\* and plt are bound before use, data before mags and z, mags before colors, colors
\* and z before the plot, and np whenever outlier_score can be called.
C8_NoUnboundName ==
    /\ err = "none"
    /\ ("mags" \in ns \/ "z" \in ns) => {"np", "data"} \subseteq ns
    /\ ("colors" \in ns) => "mags" \in ns
    /\ plot.drawn => {"plt", "colors", "z"} \subseteq ns
    /\ ("outlier_score" \in ns) => BodyReads \subseteq ns

\* C8 witness: every cell has been executed.
C8_Witness ==
    /\ pc = Len(Cells) + 1
    /\ err = "none"
    /\ plot.drawn
    /\ "outlier_score" \in ns

====
